---- MODULE Spec2Model ----
(***************************************************************************)
(* Model of apps/glusterfs/node_entry.go: the NodeEntry record, its        *)
(* device list and capacity counters, its gob encoding and its life cycle  *)
(* in the node bucket of a bolt transaction.                               *)
(***************************************************************************)
EXTENDS Integers, Sequences, FiniteSets, TLC

VARIABLES
    n,          \* the NodeEntry the caller holds (receiver of the methods)
    bucket,     \* TRUE iff tx.Bucket(BOLTDB_BUCKET_NODE) is not nil
    writable,   \* TRUE iff tx is a read-write transaction
    db,         \* content of the node bucket: key -> stored buffer
    buffer,     \* <<>> or <<b>>: the byte buffer handed to Unmarshal
    op,         \* name of the last operation called
    argId,      \* its string argument ("" when it has none)
    argAmt,     \* its uint64 argument (0 when it has none)
    err,        \* the error it returned ("nil" for none and for void methods)
    ret,        \* <<>> (nil) or <<entry>>: the *NodeEntry it returned
    info,       \* <<>> (nil) or <<view>>: the *NodeInfoResponse it returned
    devdb       \* the device records of the transaction: device id -> state

vars == <<n, bucket, writable, db, buffer, op, argId, argAmt, err, ret, info, devdb>>

(***************************************************************************)
(* Bounds of the model.                                                    *)
(***************************************************************************)
\* device identifiers offered to DeviceAdd / DeviceDelete
NumDevs == 3
\* width of the capacity counters (uint64 in the source, scaled down)
UintBits == 2
\* largest amount offered to the Storage* methods
MaxAmount == 2
\* device identifiers offered in the life-cycle specification
StoreDevs == 1
\* largest Total the caller provisions in the life-cycle specification
MaxTotal == 1

\* identifiers in the order sort.StringSlice sorts them (byte-wise ascending)
DevNames == <<"d1", "d2", "d3", "d4", "d5", "d6">>
DevIds(k) == {DevNames[i] : i \in 1..k}
NodeIds == {"n1", "n2"}

StrIndex(s) == CHOOSE i \in 1..Len(DevNames) : DevNames[i] = s
\* sort.StringSlice.Less: p[i] < p[j]
Less(a, b) == StrIndex(a) < StrIndex(b)

(***************************************************************************)
(* uint64 arithmetic: += and -= wrap around.                               *)
(***************************************************************************)
Modulus == 2 ^ UintBits
UAdd(x, a) == (x + a) % Modulus
USub(x, a) == (x - a + Modulus) % Modulus

(***************************************************************************)
(* Records.  DevicesNil is the nil-ness of the Devices slice: a nil slice  *)
(* and an empty slice both have length 0.                                  *)
(***************************************************************************)
ZeroStorage == [Total |-> 0, Free |-> 0, Used |-> 0]
ZeroInfo == [Id |-> "", ClusterId |-> "", Hostnames |-> <<>>, Zone |-> 0,
             Storage |-> ZeroStorage]
\* &NodeEntry{}
ZeroEntry == [Info |-> ZeroInfo, Devices |-> <<>>, DevicesNil |-> TRUE]
\* NewNodeEntry(): Devices = make(sort.StringSlice, 0)
NewNodeEntry == [ZeroEntry EXCEPT !.DevicesNil = FALSE]

\* NodeAddRequest values offered by the callers
Requests == [ClusterId : {"", "c1"}, Hostnames : {<<>>, <<"h1">>}, Zone : {0, 1}]
StoreRequests == {[ClusterId |-> "c1", Hostnames |-> <<"h1">>, Zone |-> 1]}

EntryFromRequest(req, uuid) ==
    [NewNodeEntry EXCEPT !.Info.Id = uuid,
                         !.Info.ClusterId = req.ClusterId,
                         !.Info.Hostnames = req.Hostnames,
                         !.Info.Zone = req.Zone]

\* utils.GenUUID(): an identifier no live record carries
GenUUID == NodeIds \ (DOMAIN db \cup {n.Info.Id})

(***************************************************************************)
(* Sorted string slices.                                                   *)
(***************************************************************************)
RECURSIVE Insert(_, _)
Insert(s, x) ==
    IF s = <<>> THEN <<x>>
    ELSE IF Less(x, Head(s)) THEN <<x>> \o s
    ELSE <<Head(s)>> \o Insert(Tail(s), x)

RECURSIVE Sort(_)
\* sort.StringSlice.Sort(): ascending by Less
Sort(s) == IF s = <<>> THEN <<>> ELSE Insert(Sort(Tail(s)), Head(s))

\* utils.SortedStringHas(s, x)
SortedStringHas(s, x) == \E i \in 1..Len(s) : s[i] = x

\* utils.SortedStringsDelete(s, x): s without x, order kept
SortedStringsDelete(s, x) == SelectSeq(s, LAMBDA e : e # x)

(***************************************************************************)
(* encoding/gob.  The encoder omits every struct field that holds the zero *)
(* value of its type (a slice of length 0, nil or not, is one); the decoder*)
(* assigns the fields present in the stream and leaves the others of the   *)
(* receiver as they are.  A buffer is the set of fields sent plus their    *)
(* values; corrupt marks bytes that are no gob stream.                     *)
(***************************************************************************)
GobFields(e) ==
    {f \in {"Id"} : e.Info.Id # ""}
    \cup {f \in {"ClusterId"} : e.Info.ClusterId # ""}
    \cup {f \in {"Hostnames"} : Len(e.Info.Hostnames) > 0}
    \cup {f \in {"Zone"} : e.Info.Zone # 0}
    \cup {f \in {"Total"} : e.Info.Storage.Total # 0}
    \cup {f \in {"Free"} : e.Info.Storage.Free # 0}
    \cup {f \in {"Used"} : e.Info.Storage.Used # 0}
    \cup {f \in {"Devices"} : Len(e.Devices) > 0}

GobEncode(e) ==
    [corrupt |-> FALSE, sent |-> GobFields(e),
     val |-> [Info |-> e.Info, Devices |-> e.Devices]]

CorruptBuffer ==
    [corrupt |-> TRUE, sent |-> {}, val |-> [Info |-> ZeroInfo, Devices |-> <<>>]]

GobDecode(recv, b) ==
    LET Pick(f, new, old) == IF f \in b.sent THEN new ELSE old
    IN  [Info |->
           [Id |-> Pick("Id", b.val.Info.Id, recv.Info.Id),
            ClusterId |-> Pick("ClusterId", b.val.Info.ClusterId, recv.Info.ClusterId),
            Hostnames |-> Pick("Hostnames", b.val.Info.Hostnames, recv.Info.Hostnames),
            Zone |-> Pick("Zone", b.val.Info.Zone, recv.Info.Zone),
            Storage |->
              [Total |-> Pick("Total", b.val.Info.Storage.Total, recv.Info.Storage.Total),
               Free |-> Pick("Free", b.val.Info.Storage.Free, recv.Info.Storage.Free),
               Used |-> Pick("Used", b.val.Info.Storage.Used, recv.Info.Storage.Used)]],
         Devices |-> Pick("Devices", b.val.Devices, recv.Devices),
         DevicesNil |-> Pick("Devices", FALSE, recv.DevicesNil)]

\* Marshal encoding n.Info instead of *n: the device list is not written
Marshal_InfoOnly(e) ==
    [buffer |-> GobEncode([e EXCEPT !.Devices = <<>>]), err |-> "nil"]

\* func (n *NodeEntry) Marshal() ([]byte, error)
Marshal(e) == [buffer |-> GobEncode(e), err |-> "nil"]

\* Unmarshal without the repair of a nil Devices slice
Unmarshal_NoRepair(recv, b) ==
    IF b.corrupt
    THEN [n |-> recv, err |-> "gob: decode error"]
    ELSE [n |-> GobDecode(recv, b), err |-> "nil"]

\* func (n *NodeEntry) Unmarshal(buffer []byte) error, with receiver recv
Unmarshal(recv, b) ==
    IF b.corrupt
    THEN [n |-> recv, err |-> "gob: decode error"]
    ELSE LET d == GobDecode(recv, b)
         IN  [n |-> IF d.DevicesNil
                    THEN [d EXCEPT !.Devices = <<>>, !.DevicesNil = FALSE]
                    ELSE d,
              err |-> "nil"]

(***************************************************************************)
(* bolt: Bucket.Get, Bucket.Put and Bucket.Delete on the node bucket.      *)
(***************************************************************************)
BoltGet(d, k) == IF k \in DOMAIN d THEN <<d[k]>> ELSE <<>>

BoltPut(w, d, k, v) ==
    IF ~w THEN [db |-> d, err |-> "tx not writable"]
    ELSE [db |-> [x \in DOMAIN d \cup {k} |-> IF x = k THEN v ELSE d[x]],
          err |-> "nil"]

BoltDelete(w, d, k) ==
    IF ~w THEN [db |-> d, err |-> "tx not writable"]
    ELSE [db |-> [x \in DOMAIN d \ {k} |-> d[x]], err |-> "nil"]

(***************************************************************************)
(* The device records NewInfoReponse resolves.  A device is "ok", or       *)
(* "missing" (NewDeviceEntryFromId returns ErrNotFound), or "broken" (its  *)
(* own NewInfoResponse fails).                                             *)
(***************************************************************************)
DeviceStates == {"ok", "missing", "broken"}

\* the device records of a transaction in which f gives the known devices
DeviceBucket(f) ==
    [d \in DevIds(Len(DevNames)) |-> IF d \in DOMAIN f THEN f[d] ELSE "missing"]

\* NewDeviceEntryFromId(tx, deviceid)
DeviceEntryFromId(d, deviceid) ==
    IF d[deviceid] = "missing"
    THEN [ret |-> <<>>, err |-> "ErrNotFound"]
    ELSE [ret |-> <<[Id |-> deviceid, state |-> d[deviceid]]>>, err |-> "nil"]

\* device.NewInfoResponse(tx)
DeviceInfoResponse(device) ==
    IF device.state = "broken"
    THEN [ret |-> <<>>, err |-> "device info error"]
    ELSE [ret |-> <<[Id |-> device.Id]>>, err |-> "nil"]

(***************************************************************************)
(* Operations of node_entry.go.                                            *)
(***************************************************************************)
Called(o, id, amt, e, r) ==
    /\ op' = o
    /\ argId' = id
    /\ argAmt' = amt
    /\ err' = e
    /\ ret' = r
    /\ info' = <<>>

\* NewNodeEntryFromId reporting a missing bucket as a missing key
EntryFromId_Conflate(b, d, id) ==
    LET val == IF b THEN BoltGet(d, id) ELSE <<>>
    IN  IF val = <<>> THEN [ret |-> <<>>, err |-> "ErrNotFound"]
        ELSE LET u == Unmarshal(NewNodeEntry, val[1])
             IN  IF u.err # "nil" THEN [ret |-> <<>>, err |-> u.err]
                 ELSE [ret |-> <<u.n>>, err |-> "nil"]

\* what NewNodeEntryFromId(tx, id) returns from bucket state b and content d
EntryFromId(b, d, id) ==
    IF ~b THEN [ret |-> <<>>, err |-> "Unable to create node entry"]
    ELSE LET val == BoltGet(d, id)
         IN  IF val = <<>> THEN [ret |-> <<>>, err |-> "ErrNotFound"]
             ELSE LET u == Unmarshal(NewNodeEntry, val[1])
                  IN  IF u.err # "nil" THEN [ret |-> <<>>, err |-> u.err]
                      ELSE [ret |-> <<u.n>>, err |-> "nil"]

NewNodeEntryFromRequest(req, uuid) ==
    /\ n' = EntryFromRequest(req, uuid)
    /\ Called("NewNodeEntryFromRequest", uuid, 0, "nil", <<n'>>)
    /\ UNCHANGED <<bucket, writable, db, buffer, devdb>>

NewNodeEntryFromId(id) ==
    LET r == EntryFromId(bucket, db, id)
    IN  /\ n' = IF r.ret = <<>> THEN n ELSE r.ret[1]
        /\ Called("NewNodeEntryFromId", id, 0, r.err, r.ret)
        /\ UNCHANGED <<bucket, writable, db, buffer, devdb>>

\* Save using the cluster id as the key
Save_ClusterKey ==
    /\ n.Info.Id # ""
    /\ LET m == Marshal(n)
           p == BoltPut(writable, db, n.Info.ClusterId, m.buffer)
       IN  IF ~bucket
           THEN /\ db' = db
                /\ Called("Save", "", 0, "Unable to create node entry", <<>>)
           ELSE IF m.err # "nil"
           THEN /\ db' = db
                /\ Called("Save", "", 0, m.err, <<>>)
           ELSE /\ db' = p.db
                /\ Called("Save", "", 0, p.err, <<>>)
    /\ UNCHANGED <<n, bucket, writable, buffer, devdb>>

RECURSIVE AddDrives_SkipFailed(_, _, _)
\* the loop of NewInfoReponse with continue in place of return nil, err
AddDrives_SkipFailed(devices, d, acc) ==
    IF devices = <<>> THEN [DevicesInfo |-> acc, err |-> "nil"]
    ELSE LET device == DeviceEntryFromId(d, Head(devices))
         IN  IF device.err # "nil"
             THEN AddDrives_SkipFailed(Tail(devices), d, acc)
             ELSE LET driveinfo == DeviceInfoResponse(device.ret[1])
                  IN  IF driveinfo.err # "nil"
                      THEN AddDrives_SkipFailed(Tail(devices), d, acc)
                      ELSE AddDrives_SkipFailed(Tail(devices), d,
                                                Append(acc, driveinfo.ret[1]))

RECURSIVE AddDrives(_, _, _)
\* for _, deviceid := range n.Devices { ... }
AddDrives(devices, d, acc) ==
    IF devices = <<>> THEN [DevicesInfo |-> acc, err |-> "nil"]
    ELSE LET device == DeviceEntryFromId(d, Head(devices))
         IN  IF device.err # "nil"
             THEN [DevicesInfo |-> acc, err |-> device.err]
             ELSE LET driveinfo == DeviceInfoResponse(device.ret[1])
                  IN  IF driveinfo.err # "nil"
                      THEN [DevicesInfo |-> acc, err |-> driveinfo.err]
                      ELSE AddDrives(Tail(devices), d, Append(acc, driveinfo.ret[1]))

\* what n.NewInfoReponse(tx) returns for the record e and device records d
InfoResponse(e, d) ==
    LET r == AddDrives(e.Devices, d, <<>>)
    IN  IF r.err # "nil" THEN [info |-> <<>>, err |-> r.err]
        ELSE [info |-> <<[ClusterId |-> e.Info.ClusterId,
                          Hostnames |-> e.Info.Hostnames,
                          Id |-> e.Info.Id,
                          Storage |-> e.Info.Storage,
                          Zone |-> e.Info.Zone,
                          DevicesInfo |-> r.DevicesInfo]>>,
              err |-> "nil"]

NewInfoReponse ==
    LET r == InfoResponse(n, devdb)
    IN  /\ info' = r.info
        /\ op' = "NewInfoReponse" /\ argId' = "" /\ argAmt' = 0
        /\ err' = r.err /\ ret' = <<>>
        /\ UNCHANGED <<n, bucket, writable, db, buffer, devdb>>

\* godbc.Require(len(n.Info.Id) > 0) stops the call otherwise
Save ==
    /\ n.Info.Id # ""
    /\ LET m == Marshal(n)
           p == BoltPut(writable, db, n.Info.Id, m.buffer)
       IN  IF ~bucket
           THEN /\ db' = db
                /\ Called("Save", "", 0, "Unable to create node entry", <<>>)
           ELSE IF m.err # "nil"
           THEN /\ db' = db
                /\ Called("Save", "", 0, m.err, <<>>)
           ELSE /\ db' = p.db
                /\ Called("Save", "", 0, p.err, <<>>)
    /\ UNCHANGED <<n, bucket, writable, buffer, devdb>>

\* Delete without the check for attached devices
Delete_NoGuard ==
    /\ LET p == BoltDelete(writable, db, n.Info.Id)
       IN  IF ~bucket
           THEN /\ db' = db
                /\ Called("Delete", "", 0, "Unable to access database", <<>>)
           ELSE /\ db' = p.db
                /\ Called("Delete", "", 0, p.err, <<>>)
    /\ UNCHANGED <<n, bucket, writable, buffer, devdb>>

\* Delete that returns nil without deleting the key
Delete_NoRemove ==
    /\ IF Len(n.Devices) > 0
       THEN /\ db' = db
            /\ Called("Delete", "", 0, "ErrConflict", <<>>)
       ELSE IF ~bucket
       THEN /\ db' = db
            /\ Called("Delete", "", 0, "Unable to access database", <<>>)
       ELSE /\ db' = db
            /\ Called("Delete", "", 0, "nil", <<>>)
    /\ UNCHANGED <<n, bucket, writable, buffer, devdb>>

\* Delete that tolerates one attached device: len(n.Devices) > 1
Delete_OffByOne ==
    /\ LET p == BoltDelete(writable, db, n.Info.Id)
       IN  IF Len(n.Devices) > 1
           THEN /\ db' = db
                /\ Called("Delete", "", 0, "ErrConflict", <<>>)
           ELSE IF ~bucket
           THEN /\ db' = db
                /\ Called("Delete", "", 0, "Unable to access database", <<>>)
           ELSE /\ db' = p.db
                /\ Called("Delete", "", 0, p.err, <<>>)
    /\ UNCHANGED <<n, bucket, writable, buffer, devdb>>

Delete ==
    /\ LET p == BoltDelete(writable, db, n.Info.Id)
       IN  IF Len(n.Devices) > 0
           THEN /\ db' = db
                /\ Called("Delete", "", 0, "ErrConflict", <<>>)
           ELSE IF ~bucket
           THEN /\ db' = db
                /\ Called("Delete", "", 0, "Unable to access database", <<>>)
           ELSE /\ db' = p.db
                /\ Called("Delete", "", 0, p.err, <<>>)
    /\ UNCHANGED <<n, bucket, writable, buffer, devdb>>

(***************************************************************************)
(* The six mutators as functions of the record e they are called on.       *)
(***************************************************************************)
\* n.Devices = append(n.Devices, id); n.Devices.Sort()
DeviceAddOf(e, id) ==
    [e EXCEPT !.Devices = Sort(Append(e.Devices, id)), !.DevicesNil = FALSE]

\* n.Devices = utils.SortedStringsDelete(n.Devices, id)
DeviceDeleteOf(e, id) ==
    [e EXCEPT !.Devices = SortedStringsDelete(e.Devices, id)]

\* Free += amount; Total += amount
StorageAddOf(e, amount) ==
    [e EXCEPT !.Info.Storage.Free = UAdd(@, amount),
              !.Info.Storage.Total = UAdd(@, amount)]

\* StorageAllocate with Free += amount in place of Free -= amount
StorageAllocateOf_AddsFree(e, amount) ==
    [e EXCEPT !.Info.Storage.Free = UAdd(@, amount),
              !.Info.Storage.Used = UAdd(@, amount)]

\* Free -= amount; Used += amount
StorageAllocateOf(e, amount) ==
    [e EXCEPT !.Info.Storage.Free = USub(@, amount),
              !.Info.Storage.Used = UAdd(@, amount)]

\* Free += amount; Used -= amount
StorageFreeOf(e, amount) ==
    [e EXCEPT !.Info.Storage.Free = UAdd(@, amount),
              !.Info.Storage.Used = USub(@, amount)]

\* Total -= amount; Free -= amount
StorageDeleteOf(e, amount) ==
    [e EXCEPT !.Info.Storage.Total = USub(@, amount),
              !.Info.Storage.Free = USub(@, amount)]

\* DeviceAdd without the Sort after the append
DeviceAdd_NoSort(id) ==
    /\ ~SortedStringHas(n.Devices, id)
    /\ n' = [n EXCEPT !.Devices = Append(n.Devices, id), !.DevicesNil = FALSE]
    /\ Called("DeviceAdd", id, 0, "nil", <<>>)
    /\ UNCHANGED <<bucket, writable, db, buffer, devdb>>

\* godbc.Require(!utils.SortedStringHas(n.Devices, id)) stops the call otherwise
DeviceAdd(id) ==
    /\ ~SortedStringHas(n.Devices, id)
    /\ n' = DeviceAddOf(n, id)
    /\ Called("DeviceAdd", id, 0, "nil", <<>>)
    /\ UNCHANGED <<bucket, writable, db, buffer, devdb>>

\* DeviceDelete that drops the element at the search position without
\* checking that it is id
DeviceDelete_NoMatch(id) ==
    /\ LET s == n.Devices
           at == {i \in 1..Len(s) : ~Less(s[i], id)}
           index == IF at = {} THEN Len(s) + 1
                    ELSE CHOOSE i \in at : \A j \in at : i <= j
       IN  n' = [n EXCEPT !.Devices =
                    SubSeq(s, 1, index - 1) \o SubSeq(s, index + 1, Len(s))]
    /\ Called("DeviceDelete", id, 0, "nil", <<>>)
    /\ UNCHANGED <<bucket, writable, db, buffer, devdb>>

\* DeviceDelete that also retires the free capacity of the node
DeviceDelete_ClearsFree(id) ==
    /\ n' = [n EXCEPT !.Devices = SortedStringsDelete(n.Devices, id),
                      !.Info.Storage.Free = 0]
    /\ Called("DeviceDelete", id, 0, "nil", <<>>)
    /\ UNCHANGED <<bucket, writable, db, buffer, devdb>>

DeviceDelete(id) ==
    /\ n' = DeviceDeleteOf(n, id)
    /\ Called("DeviceDelete", id, 0, "nil", <<>>)
    /\ UNCHANGED <<bucket, writable, db, buffer, devdb>>

StorageAdd(amount) ==
    /\ n' = StorageAddOf(n, amount)
    /\ Called("StorageAdd", "", amount, "nil", <<>>)
    /\ UNCHANGED <<bucket, writable, db, buffer, devdb>>

\* StorageAllocate that forgets Used += amount
StorageAllocate_NoUsed(amount) ==
    /\ n' = [n EXCEPT !.Info.Storage.Free = USub(@, amount)]
    /\ Called("StorageAllocate", "", amount, "nil", <<>>)
    /\ UNCHANGED <<bucket, writable, db, buffer, devdb>>

StorageAllocate(amount) ==
    /\ n' = StorageAllocateOf(n, amount)
    /\ Called("StorageAllocate", "", amount, "nil", <<>>)
    /\ UNCHANGED <<bucket, writable, db, buffer, devdb>>

\* StorageFree with the two signs swapped
StorageFree_Swapped(amount) ==
    /\ n' = [n EXCEPT !.Info.Storage.Free = USub(@, amount),
                      !.Info.Storage.Used = UAdd(@, amount)]
    /\ Called("StorageFree", "", amount, "nil", <<>>)
    /\ UNCHANGED <<bucket, writable, db, buffer, devdb>>

StorageFree(amount) ==
    /\ n' = StorageFreeOf(n, amount)
    /\ Called("StorageFree", "", amount, "nil", <<>>)
    /\ UNCHANGED <<bucket, writable, db, buffer, devdb>>

\* StorageDelete that forgets Free -= amount
StorageDelete_NoFree(amount) ==
    /\ n' = [n EXCEPT !.Info.Storage.Total = USub(@, amount)]
    /\ Called("StorageDelete", "", amount, "nil", <<>>)
    /\ UNCHANGED <<bucket, writable, db, buffer, devdb>>

StorageDelete(amount) ==
    /\ n' = StorageDeleteOf(n, amount)
    /\ Called("StorageDelete", "", amount, "nil", <<>>)
    /\ UNCHANGED <<bucket, writable, db, buffer, devdb>>

(***************************************************************************)
(* The in-memory record under its mutators, with arbitrary amounts.        *)
(***************************************************************************)
Idle ==
    /\ buffer = <<>>
    /\ op = "none" /\ argId = "" /\ argAmt = 0 /\ err = "nil" /\ ret = <<>>
    /\ info = <<>>
    /\ devdb = DeviceBucket([d \in {} |-> "ok"])

InitMem ==
    /\ n \in {NewNodeEntry} \cup {EntryFromRequest(r, "n1") : r \in Requests}
    /\ bucket = TRUE /\ writable = TRUE /\ db = <<>>
    /\ Idle

NextMem ==
    \/ \E id \in DevIds(NumDevs) : DeviceAdd(id)
    \/ \E id \in DevIds(NumDevs + 1) : DeviceDelete(id)
    \/ \E a \in 0..MaxAmount : StorageAdd(a)
    \/ \E a \in 0..MaxAmount : StorageAllocate(a)
    \/ \E a \in 0..MaxAmount : StorageFree(a)
    \/ \E a \in 0..MaxAmount : StorageDelete(a)

SpecMem == InitMem /\ [][NextMem]_vars

(***************************************************************************)
(* The life cycle of records in one transaction: the caller creates or     *)
(* loads a record, mutates it, saves and deletes it.  The caller moves     *)
(* capacity one unit at a time here, keeps the amounts matched and         *)
(* provisions at most MaxTotal.                                            *)
(***************************************************************************)
Init ==
    /\ n = NewNodeEntry
    /\ bucket \in BOOLEAN
    /\ writable \in BOOLEAN
    /\ db = <<>>
    /\ Idle

Next ==
    \/ \E req \in StoreRequests, uuid \in GenUUID : NewNodeEntryFromRequest(req, uuid)
    \/ \E id \in NodeIds : NewNodeEntryFromId(id)
    \/ Save
    \/ Delete
    \/ \E id \in DevIds(StoreDevs) : DeviceAdd(id)
    \/ \E id \in DevIds(StoreDevs) : DeviceDelete(id)
    \/ n.Info.Storage.Total + 1 <= MaxTotal /\ StorageAdd(1)
    \/ 1 <= n.Info.Storage.Free /\ StorageAllocate(1)
    \/ 1 <= n.Info.Storage.Used /\ StorageFree(1)
    \/ 1 <= n.Info.Storage.Free /\ StorageDelete(1)

Spec == Init /\ [][Next]_vars

(***************************************************************************)
(* Marshal and Unmarshal as functions: a valid record is encoded and the   *)
(* buffer (or bytes that are no gob stream) is decoded into a fresh        *)
(* receiver, NewNodeEntry() or &NodeEntry{}.                               *)
(***************************************************************************)
RECURSIVE SortedSeqOf(_)
SortedSeqOf(S) ==
    IF S = {} THEN <<>>
    ELSE LET m == CHOOSE x \in S : \A y \in S : ~Less(y, x)
         IN  <<m>> \o SortedSeqOf(S \ {m})

StorageValues == [Total : 0..MaxAmount, Free : 0..MaxAmount, Used : 0..MaxAmount]

ValidEntries ==
    {[Info |-> [e.Info EXCEPT !.Storage = st], Devices |-> SortedSeqOf(S),
      DevicesNil |-> FALSE] :
        e \in {NewNodeEntry} \cup {EntryFromRequest(r, "n1") : r \in Requests},
        st \in StorageValues,
        S \in SUBSET DevIds(NumDevs)}

MarshalCall ==
    LET m == Marshal(n)
    IN  /\ buffer' = <<m.buffer>>
        /\ Called("Marshal", "", 0, m.err, <<>>)
        /\ UNCHANGED <<n, bucket, writable, db, devdb>>

UnmarshalCall(recv) ==
    /\ buffer # <<>>
    /\ LET u == Unmarshal(recv, buffer[1])
       IN  Called("Unmarshal", "", 0, u.err, <<u.n>>)
    /\ UNCHANGED <<n, bucket, writable, db, buffer, devdb>>

InitCodec ==
    /\ n \in ValidEntries
    /\ bucket = TRUE /\ writable = TRUE /\ db = <<>>
    /\ buffer \in {<<>>, <<CorruptBuffer>>}
    /\ op = "none" /\ argId = "" /\ argAmt = 0 /\ err = "nil" /\ ret = <<>>
    /\ info = <<>>
    /\ devdb = DeviceBucket([d \in {} |-> "ok"])

NextCodec ==
    \/ MarshalCall
    \/ \E recv \in {NewNodeEntry, ZeroEntry} : UnmarshalCall(recv)

SpecCodec == InitCodec /\ [][NextCodec]_vars

(***************************************************************************)
(* The view of a record: the caller attaches and detaches devices, adds    *)
(* capacity and asks for the view, in a transaction whose device records   *)
(* are in any of their states.                                             *)
(***************************************************************************)
InitInfo ==
    /\ n \in {NewNodeEntry} \cup {EntryFromRequest(r, "n1") : r \in StoreRequests}
    /\ bucket = TRUE /\ writable = TRUE /\ db = <<>>
    /\ buffer = <<>>
    /\ op = "none" /\ argId = "" /\ argAmt = 0 /\ err = "nil" /\ ret = <<>>
    /\ info = <<>>
    /\ devdb \in {DeviceBucket(f) : f \in [DevIds(NumDevs) -> DeviceStates]}

NextInfo ==
    \/ \E id \in DevIds(NumDevs) : DeviceAdd(id)
    \/ \E id \in DevIds(NumDevs) : DeviceDelete(id)
    \/ StorageAdd(1)
    \/ NewInfoReponse

SpecInfo == InitInfo /\ [][NextInfo]_vars

(***************************************************************************)
(* Properties.                                                             *)
(***************************************************************************)
StrictlyAscending(s) == \A i \in 1..(Len(s) - 1) : Less(s[i], s[i + 1])

StorageOps == {"StorageAdd", "StorageAllocate", "StorageFree", "StorageDelete"}

\* Total == Used + Free as the program evaluates it on its counters
Conserved(st) == st.Total = UAdd(st.Used, st.Free)

\* the amount a of operation o does not exceed the counters o subtracts from
Matched(o, a, st) ==
    CASE o = "StorageAdd" -> TRUE
      [] o = "StorageAllocate" -> a <= st.Free
      [] o = "StorageFree" -> a <= st.Used
      [] o = "StorageDelete" -> a <= st.Total /\ a <= st.Free
      [] OTHER -> FALSE

\* the counters operation o subtracts from
Decremented(o) ==
    CASE o = "StorageAllocate" -> {"Free"}
      [] o = "StorageFree" -> {"Used"}
      [] o = "StorageDelete" -> {"Total", "Free"}
      [] OTHER -> {}

\* C1: under DeviceAdd (called only for an id not in Devices) and
\* DeviceDelete, Devices is strictly ascending, hence without duplicates.
C1_SortedUnique == StrictlyAscending(n.Devices)

\* DeviceAdd has appended an id that sorts before the ids already there.
C1_Witness ==
    /\ op = "DeviceAdd"
    /\ Len(n.Devices) >= 3
    /\ n.Devices[1] = argId

\* C2: a capacity call with a matched amount on a record with
\* Total == Used + Free leaves Total == Used + Free.
C2_Conservation ==
    [][(/\ op' \in StorageOps
        /\ Matched(op', argAmt', n.Info.Storage)
        /\ Conserved(n.Info.Storage))
       => Conserved(n'.Info.Storage)]_vars

\* StorageAllocate(2) has moved all of Free = 2 to Used.
C2_Witness ==
    /\ op = "StorageAllocate" /\ argAmt = 2
    /\ n.Info.Storage = [Total |-> 2, Free |-> 0, Used |-> 2]

\* C3: Delete on a record with devices returns ErrConflict and leaves every
\* key of the bucket as it was.
C3_DeleteGuard ==
    [][(op' = "Delete" /\ Len(n.Devices) > 0)
       => (err' = "ErrConflict" /\ db' = db)]_vars

\* Delete has been refused for a stored record that holds a device.
C3_Witness ==
    /\ op = "Delete" /\ err = "ErrConflict"
    /\ Len(n.Devices) > 0
    /\ n.Info.Id \in DOMAIN db

\* C4: Unmarshal of Marshal(R) into a fresh receiver gives R in every field,
\* and a Devices slice that is empty and not nil when the stream carries none.
C4_RoundTrip ==
    (op = "Unmarshal" /\ err = "nil")
        => (ret = <<n>> /\ ~ret[1].DevicesNil)

\* A record without devices has been decoded from a stream without Devices.
C4_Witness ==
    /\ op = "Unmarshal" /\ err = "nil"
    /\ "Devices" \notin buffer[1].sent
    /\ n.Info.Id # "" /\ n.Info.Storage.Used > 0
    /\ ret = <<n>>

\* C5: after a successful Save of R, NewNodeEntryFromId(tx, R.Info.Id) on
\* the resulting bucket succeeds and returns a record identical to R.
C5_SaveLoad ==
    [][(op' = "Save" /\ err' = "nil")
       => EntryFromId(bucket', db', n.Info.Id) = [ret |-> <<n>>, err |-> "nil"]]_vars

\* A saved record with a device and allocated capacity has been loaded back.
C5_Witness ==
    /\ op = "NewNodeEntryFromId" /\ err = "nil"
    /\ ret = <<n>>
    /\ Len(n.Devices) > 0
    /\ n.Info.Storage.Used > 0

\* C6: DeviceDelete(id) for an id not in Devices leaves Devices as it was,
\* and a second DeviceDelete(id) changes nothing after the first.
C6_IdempotentRemoval ==
    [][op' = "DeviceDelete"
       => /\ err' = "nil"
          /\ ~SortedStringHas(n.Devices, argId')
                => (n'.Devices = n.Devices /\ n'.DevicesNil = n.DevicesNil)
          /\ SortedStringsDelete(n'.Devices, argId') = n'.Devices]_vars

\* DeviceDelete has been called with an id that DeviceAdd is never given.
C6_Witness ==
    /\ op = "DeviceDelete"
    /\ argId = DevNames[NumDevs + 1]
    /\ Len(n.Devices) >= 2

\* C7 as stated: no capacity call, whatever its amount, takes a counter
\* below zero.
C7_NeverBelowZero ==
    [][op' \in StorageOps
       => \A c \in Decremented(op') :
              n'.Info.Storage[c] = n.Info.Storage[c] - argAmt']_vars

\* C7 amended: a capacity call with a matched amount takes no counter below
\* zero.
C7_MatchedNeverBelowZero ==
    [][(op' \in StorageOps /\ Matched(op', argAmt', n.Info.Storage))
       => \A c \in Decremented(op') :
              n'.Info.Storage[c] = n.Info.Storage[c] - argAmt']_vars

\* StorageFree(1) has released the one unit that was in use.
C7_Witness ==
    /\ op = "StorageFree" /\ argAmt = 1
    /\ n.Info.Storage = [Total |-> 2, Free |-> 2, Used |-> 0]

\* C8: Delete of a stored record is refused with ErrConflict while the
\* record holds devices; once it holds none, Delete succeeds, the key is
\* gone and NewNodeEntryFromId for it returns ErrNotFound.
C8_DeleteLifecycle ==
    [][op' = "Delete"
       => IF Len(n.Devices) > 0
          THEN err' = "ErrConflict" /\ db' = db
          ELSE n.Info.Id \in DOMAIN db
                 => /\ err' = "nil"
                    /\ n.Info.Id \notin DOMAIN db'
                    /\ EntryFromId(bucket', db', n.Info.Id)
                         = [ret |-> <<>>, err |-> "ErrNotFound"]]_vars

\* After a successful Delete, the load of the deleted identifier has failed.
C8_Witness ==
    /\ op = "NewNodeEntryFromId" /\ err = "ErrNotFound"
    /\ argId = n.Info.Id
    /\ bucket /\ writable
    /\ n.Devices = <<>> /\ n.Info.Storage.Total > 0

\* C9 as stated: whenever Delete removes a key, the record stored under it
\* has no devices.
C9_StoredDevicesEmpty ==
    [][(op' = "Delete" /\ db' # db)
       => Unmarshal(NewNodeEntry, db[n.Info.Id]).n.Devices = <<>>]_vars

\* C9 amended: a key leaves the bucket only by a successful Delete on a
\* record that holds no devices in memory, and it is that record's key.
C9_MemoryDevicesEmpty ==
    [][(DOMAIN db' # DOMAIN db /\ DOMAIN db' \subseteq DOMAIN db)
       => /\ op' = "Delete" /\ err' = "nil"
          /\ Len(n.Devices) = 0
          /\ DOMAIN db \ DOMAIN db' = {n.Info.Id}]_vars

\* Delete has removed one record and another is still stored.
C9_Witness ==
    /\ op = "Delete" /\ err = "nil"
    /\ n.Info.Id \in NodeIds
    /\ n.Info.Id \notin DOMAIN db
    /\ DOMAIN db # {}

\* C10: NewNodeEntryFromId returns a bucket error that is not ErrNotFound
\* when the bucket is missing, ErrNotFound when the key is missing, a record
\* only when the key is there; it never changes the bucket.
C10_LoadFailures ==
    [][op' = "NewNodeEntryFromId"
       => /\ db' = db /\ bucket' = bucket
          /\ ~bucket => (err' = "Unable to create node entry" /\ ret' = <<>>)
          /\ (bucket /\ argId' \notin DOMAIN db)
                => (err' = "ErrNotFound" /\ ret' = <<>>)
          /\ ret' # <<>> => (bucket /\ argId' \in DOMAIN db /\ err' = "nil")
          /\ err' # "nil" => (ret' = <<>> /\ n' = n)]_vars

\* The load has failed because the node bucket does not exist.
C10_Witness ==
    /\ op = "NewNodeEntryFromId"
    /\ ~bucket
    /\ err = "Unable to create node entry"
    /\ ret = <<>>

DeviceOps == {"DeviceAdd", "DeviceDelete"}

\* C12: the Storage* methods leave Devices and the identity fields of the
\* record alone, DeviceAdd and DeviceDelete leave the whole Info (Storage,
\* Id, ClusterId, Hostnames, Zone) alone, and none of the six touches the
\* bucket.
C12_MutatorFrame ==
    [][/\ op' \in StorageOps
            => /\ n'.Devices = n.Devices /\ n'.DevicesNil = n.DevicesNil
               /\ n'.Info.Id = n.Info.Id
               /\ n'.Info.ClusterId = n.Info.ClusterId
               /\ n'.Info.Hostnames = n.Info.Hostnames
               /\ n'.Info.Zone = n.Info.Zone
       /\ op' \in DeviceOps => n'.Info = n.Info
       /\ op' \in StorageOps \cup DeviceOps
            => (db' = db /\ bucket' = bucket /\ writable' = writable)]_vars

\* DeviceDelete has emptied the device list of a record with capacity in
\* use, while the bucket still holds the record with its device.
C12_Witness ==
    /\ op = "DeviceDelete"
    /\ n.Devices = <<>>
    /\ n.Info.Storage.Used > 0
    /\ n.Info.Id \in DOMAIN db
    /\ Unmarshal(NewNodeEntry, db[n.Info.Id]).n.Devices # <<>>

\* C13: Save leaves the record in memory as it is and every key other than
\* n.Info.Id as it is; when it returns an error the bucket is unchanged.
C13_SaveFrame ==
    [][op' = "Save"
       => /\ n' = n
          /\ \A k \in (DOMAIN db \cup DOMAIN db') \ {n.Info.Id} :
                k \in DOMAIN db /\ k \in DOMAIN db' /\ db'[k] = db[k]
          /\ err' # "nil" => db' = db]_vars

\* Save has stored a record next to another one that is already stored.
C13_Witness ==
    /\ op = "Save" /\ err = "nil"
    /\ DOMAIN db = NodeIds
    /\ \E k \in DOMAIN db : db[k] # db[n.Info.Id]

\* C14: Total == Used + Free, evaluated on the wrapping counters, holds in
\* every state reached from zeroed counters, whatever the amounts.
C14_WrapConservation == Conserved(n.Info.Storage)

\* StorageAllocate(1) on zeroed counters has wrapped Free around.
C14_Witness ==
    /\ op = "StorageAllocate" /\ argAmt = 1
    /\ n.Info.Storage = [Total |-> 0, Free |-> Modulus - 1, Used |-> 1]

\* C15: on every record the mutators reach, for every amount and every id
\* not in Devices: StorageAllocate then StorageFree, StorageAdd then
\* StorageDelete, and DeviceAdd then DeviceDelete give the record back.
C15_Inverses ==
    /\ \A a \in 0..MaxAmount :
          /\ StorageFreeOf(StorageAllocateOf(n, a), a) = n
          /\ StorageDeleteOf(StorageAddOf(n, a), a) = n
    /\ \A id \in DevIds(NumDevs) :
          ~SortedStringHas(n.Devices, id)
             => DeviceDeleteOf(DeviceAddOf(n, id), id) = n

\* StorageFree(2) has brought counters that had wrapped around back to zero,
\* on a record that holds devices.
C15_Witness ==
    /\ op = "StorageFree" /\ argAmt = 2
    /\ n.Info.Storage = ZeroStorage
    /\ Len(n.Devices) >= 1 /\ Len(n.Devices) < NumDevs

\* the positions of Devices whose device does not resolve or project
Failing(devices, d) == {i \in 1..Len(devices) : d[devices[i]] # "ok"}

\* C11: when every device of Devices resolves, NewInfoReponse returns a view
\* with one DevicesInfo entry per device, in the order of Devices, and the
\* record's ClusterId, Hostnames, Id, Storage and Zone; when one does not,
\* it returns the error of the first such device and no view.
C11_AllOrNothing ==
    op = "NewInfoReponse"
       => LET bad == Failing(n.Devices, devdb)
          IN  IF bad = {}
              THEN /\ err = "nil"
                   /\ Len(info) = 1
                   /\ Len(info[1].DevicesInfo) = Len(n.Devices)
                   /\ \A i \in 1..Len(n.Devices) :
                         info[1].DevicesInfo[i].Id = n.Devices[i]
                   /\ info[1].ClusterId = n.Info.ClusterId
                   /\ info[1].Hostnames = n.Info.Hostnames
                   /\ info[1].Id = n.Info.Id
                   /\ info[1].Storage = n.Info.Storage
                   /\ info[1].Zone = n.Info.Zone
              ELSE LET first == CHOOSE i \in bad : \A j \in bad : i <= j
                   IN  /\ info = <<>>
                       /\ err = IF devdb[n.Devices[first]] = "missing"
                                THEN "ErrNotFound" ELSE "device info error"

\* The view has been refused although the first device of the record
\* resolves: a later one does not.
C11_Witness ==
    /\ op = "NewInfoReponse"
    /\ Len(n.Devices) >= 2
    /\ devdb[n.Devices[1]] = "ok"
    /\ err # "nil"
    /\ info = <<>>

====
